---- MODULE Spec2Model ----
(***************************************************************************)
(* The stock alerts application as a state machine: the price cache and   *)
(* rate limiter (src/src/lib/yahoo_finance.ts), the prices route           *)
(* (src/unnamed/part_002), the alerts route                                *)
(* (src/src/app/api/alerts/route.ts), the alert card                       *)
(* (src/src/components/AlertCard.tsx) and the evaluation cycle that        *)
(* records triggered alerts.                                               *)
(*                                                                         *)
(* Time is counted in minutes: RATE_LIMIT_WINDOW (60 * 1000 ms) is 1.  The  *)
(* request budget (100 in the source) and the cache duration (5 minutes in *)
(* the source) are scaled down so that a window can be exhausted and an    *)
(* entry can expire within the model's horizon.                            *)
(*                                                                         *)
(* Every async function runs synchronously up to its first await, so the   *)
(* segment of getStockPrice before the cache lookup (normalise, validate,  *)
(* checkRateLimit) is one atomic step; each await is a separate step of    *)
(* the invocation.  The persistence store is taken to be available.        *)
(***************************************************************************)
EXTENDS Integers, Sequences, FiniteSets, Bags, TLC

VARIABLES
    now,             \* Date.now(), in minutes
    rateLimitStore,  \* Map<string, {count, resetTime}>
    stockPrices,     \* rows of the stock_prices table
    calls,           \* bag of the requests in flight, each with its invocations
    returned,        \* the request the last step completed, with its results
    monitor,         \* history: per key, the limiter's answers in its window
    alerts,          \* rows of the alerts table
    triggeredAlerts, \* rows of the triggered_alerts table
    cuid,            \* the number of row identities handed out so far
    cycle,           \* the outcome of the last evaluation cycle
    card,            \* the alert card rendered last
    reply,           \* the response of the alerts route to the last request
    creating,        \* bag of the POSTs of alerts between their check and their insert
    deviceTokens,    \* rows of the device_tokens table
    dispatch         \* the last push dispatch: its tokens, the gateway's answer, its result

libVars == <<now, rateLimitStore, stockPrices, calls, returned, monitor>>
appVars == <<alerts, triggeredAlerts, cuid, cycle, card, reply, creating>>
pushVars == <<deviceTokens, dispatch>>
vars == <<libVars, appVars, pushVars>>

----------------------------------------------------------------------------
(* Bounds of the model *)

MaxTime == 2
MaxRawLen == 1
MaxPrice == 2
MaxBatch == 2
MaxInFlight == 2
MaxRows == 3

(* Program constants; the first two are scaled *)

RATE_LIMIT_REQUESTS == 2
CACHE_DURATION == 1
RATE_LIMIT_WINDOW == 1

(* multiplePricesSchema of the prices route *)

MAX_SYMBOLS == 20
MAX_SYMBOL_LENGTH == 10

Keys == {"default", "search"}

----------------------------------------------------------------------------
(* Symbols are sequences of one-character strings *)

Chars == {"a", "A", " ", "1"}
UpperLetters == {"A", "B", "C", "D", "E", "F", "G", "H", "I", "J", "K", "L", "M",
                 "N", "O", "P", "Q", "R", "S", "T", "U", "V", "W", "X", "Y", "Z"}

SeqsUpTo(S, n) == UNION {[1..m -> S] : m \in 0..n}

RawSymbols ==
    SeqsUpTo(Chars, MaxRawLen)
    \cup {<<"Z">>, <<" ", "a", " ">>, <<"Z", "Z", "Z", "Z", "Z", "Z">>}

toUpperCase(s) == [i \in 1..Len(s) |-> IF s[i] = "a" THEN "A" ELSE s[i]]

RECURSIVE trimStart(_)
trimStart(s) ==
    IF s # <<>> /\ Head(s) = " " THEN trimStart(Tail(s)) ELSE s

RECURSIVE trimEnd(_)
trimEnd(s) ==
    IF s # <<>> /\ s[Len(s)] = " " THEN trimEnd(SubSeq(s, 1, Len(s) - 1)) ELSE s

trim(s) == trimEnd(trimStart(s))

normalizeSymbol(symbol) == toUpperCase(trim(symbol))

\* /^[A-Z]{1,5}$/.test(symbol.toUpperCase())
isValidStockSymbol(symbol) ==
    LET u == toUpperCase(symbol)
    IN  /\ Len(u) >= 1
        /\ Len(u) <= 5
        /\ \A i \in 1..Len(u) : u[i] \in UpperLetters

----------------------------------------------------------------------------
(* Rate limiter *)

MapSet(m, k, v) == [x \in DOMAIN m \cup {k} |-> IF x = k THEN v ELSE m[x]]

\* the compare lets one request too many through
checkRateLimit_OffByOne(store, key, t) ==
    IF key \notin DOMAIN store \/ t > store[key].resetTime
    THEN [allowed |-> TRUE,
          store |-> MapSet(store, key,
                           [count |-> 1, resetTime |-> t + RATE_LIMIT_WINDOW])]
    ELSE IF store[key].count > RATE_LIMIT_REQUESTS
    THEN [allowed |-> FALSE, store |-> store]
    ELSE [allowed |-> TRUE,
          store |-> MapSet(store, key,
                           [count |-> store[key].count + 1,
                            resetTime |-> store[key].resetTime])]

\* the count is incremented before the compare, also when denying
checkRateLimit_CountOnDeny(store, key, t) ==
    IF key \notin DOMAIN store \/ t > store[key].resetTime
    THEN [allowed |-> TRUE,
          store |-> MapSet(store, key,
                           [count |-> 1, resetTime |-> t + RATE_LIMIT_WINDOW])]
    ELSE [allowed |-> store[key].count < RATE_LIMIT_REQUESTS,
          store |-> MapSet(store, key,
                           [count |-> store[key].count + 1,
                            resetTime |-> store[key].resetTime])]

\* a window is opened on first use only, never again
checkRateLimit_NoReset(store, key, t) ==
    IF key \notin DOMAIN store
    THEN [allowed |-> TRUE,
          store |-> MapSet(store, key,
                           [count |-> 1, resetTime |-> t + RATE_LIMIT_WINDOW])]
    ELSE IF store[key].count >= RATE_LIMIT_REQUESTS
    THEN [allowed |-> FALSE, store |-> store]
    ELSE [allowed |-> TRUE,
          store |-> MapSet(store, key,
                           [count |-> store[key].count + 1,
                            resetTime |-> store[key].resetTime])]

\* the increment is lost
checkRateLimit_LostUpdate(store, key, t) ==
    IF key \notin DOMAIN store \/ t > store[key].resetTime
    THEN [allowed |-> TRUE,
          store |-> MapSet(store, key,
                           [count |-> 1, resetTime |-> t + RATE_LIMIT_WINDOW])]
    ELSE IF store[key].count >= RATE_LIMIT_REQUESTS
    THEN [allowed |-> FALSE, store |-> store]
    ELSE [allowed |-> TRUE, store |-> store]

\* one record is shared by all keys
checkRateLimit_OneKey(store, key, t) ==
    IF "default" \notin DOMAIN store \/ t > store["default"].resetTime
    THEN [allowed |-> TRUE,
          store |-> MapSet(store, "default",
                           [count |-> 1, resetTime |-> t + RATE_LIMIT_WINDOW])]
    ELSE IF store["default"].count >= RATE_LIMIT_REQUESTS
    THEN [allowed |-> FALSE, store |-> store]
    ELSE [allowed |-> TRUE,
          store |-> MapSet(store, "default",
                           [count |-> store["default"].count + 1,
                            resetTime |-> store["default"].resetTime])]

checkRateLimit(store, key, t) ==
    IF key \notin DOMAIN store \/ t > store[key].resetTime
    THEN [allowed |-> TRUE,
          store |-> MapSet(store, key,
                           [count |-> 1, resetTime |-> t + RATE_LIMIT_WINDOW])]
    ELSE IF store[key].count >= RATE_LIMIT_REQUESTS
    THEN [allowed |-> FALSE, store |-> store]
    ELSE [allowed |-> TRUE,
          store |-> MapSet(store, key,
                           [count |-> store[key].count + 1,
                            resetTime |-> store[key].resetTime])]

----------------------------------------------------------------------------
(* Price cache *)

isCacheValid(updatedAt, t) == t < updatedAt + CACHE_DURATION

RowsOf(table, symbol) == {r \in table : r.symbol = symbol}

\* prisma.stockPrice.findUnique followed by the validity test
getCachedPrice(table, symbol, t) ==
    LET found == RowsOf(table, normalizeSymbol(symbol))
    IN  IF found # {} /\ isCacheValid((CHOOSE r \in found : TRUE).updatedAt, t)
        THEN LET cached == CHOOSE r \in found : TRUE
             IN  [hit |-> TRUE, symbol |-> cached.symbol, price |-> cached.price]
        ELSE [hit |-> FALSE, symbol |-> <<>>, price |-> 0]

\* the update has no where clause: it writes every row
updatePriceCache_AllRows(table, symbol, price, t) ==
    LET key == normalizeSymbol(symbol)
    IN  IF RowsOf(table, key) # {}
        THEN {[symbol |-> r.symbol, price |-> price, updatedAt |-> t] : r \in table}
        ELSE table \cup {[symbol |-> key, price |-> price, updatedAt |-> t]}

\* prisma.stockPrice.upsert on the unique symbol
updatePriceCache(table, symbol, price, t) ==
    LET key == normalizeSymbol(symbol)
    IN  IF RowsOf(table, key) # {}
        THEN {IF r.symbol = key
              THEN [symbol |-> r.symbol, price |-> price, updatedAt |-> t]
              ELSE r : r \in table}
        ELSE table \cup {[symbol |-> key, price |-> price, updatedAt |-> t]}

----------------------------------------------------------------------------
(* Invocations *)

\* What an invocation gave its caller: of a StockPrice the symbol and the
\* price, of a failure the message.
NoResult == [kind |-> "none", symbol |-> <<>>, price |-> 0, error |-> ""]

\* a rejected promise: throw new Error(message)
Thrown(message) ==
    [kind |-> "thrown", symbol |-> <<>>, price |-> 0, error |-> message]

\* a StockPrice
Price(symbol, price) ==
    [kind |-> "price", symbol |-> symbol, price |-> price, error |-> ""]

Invocation(pc, symbol, useCache, result) ==
    [pc |-> pc, symbol |-> symbol, useCache |-> useCache, result |-> result]

IdleCall == [op |-> "none", subs |-> <<>>]

\* the limiter's denial is ignored
getStockPriceSync_IgnoreLimit(store, symbol, useCache, t) ==
    LET normalizedSymbol == normalizeSymbol(symbol)
        limit == checkRateLimit(store, "default", t)
    IN  IF ~isValidStockSymbol(normalizedSymbol)
        THEN [store |-> store, limited |-> FALSE,
              call |-> Invocation("done", normalizedSymbol, useCache,
                          Thrown("Invalid stock symbol format"))]
        ELSE [store |-> limit.store, limited |-> TRUE,
              call |-> Invocation(IF useCache THEN "cache" ELSE "api",
                                  normalizedSymbol, useCache, NoResult)]

\* the limiter is asked before the symbol is validated
getStockPriceSync_LimitFirst(store, symbol, useCache, t) ==
    LET normalizedSymbol == normalizeSymbol(symbol)
        limit == checkRateLimit(store, "default", t)
    IN  IF ~limit.allowed
        THEN [store |-> limit.store, limited |-> TRUE,
              call |-> Invocation("done", normalizedSymbol, useCache,
                          Thrown("Rate limit exceeded"))]
        ELSE IF ~isValidStockSymbol(normalizedSymbol)
        THEN [store |-> limit.store, limited |-> TRUE,
              call |-> Invocation("done", normalizedSymbol, useCache,
                          Thrown("Invalid stock symbol format"))]
        ELSE [store |-> limit.store, limited |-> TRUE,
              call |-> Invocation(IF useCache THEN "cache" ELSE "api",
                                  normalizedSymbol, useCache, NoResult)]

\* the cache is read whatever useCache says
getStockPriceSync_AlwaysCache(store, symbol, useCache, t) ==
    LET normalizedSymbol == normalizeSymbol(symbol)
        limit == checkRateLimit(store, "default", t)
    IN  IF ~isValidStockSymbol(normalizedSymbol)
        THEN [store |-> store, limited |-> FALSE,
              call |-> Invocation("done", normalizedSymbol, useCache,
                          Thrown("Invalid stock symbol format"))]
        ELSE IF ~limit.allowed
        THEN [store |-> limit.store, limited |-> TRUE,
              call |-> Invocation("done", normalizedSymbol, useCache,
                          Thrown("Rate limit exceeded"))]
        ELSE [store |-> limit.store, limited |-> TRUE,
              call |-> Invocation("cache", normalizedSymbol, useCache, NoResult)]

\* getStockPrice up to its first await
getStockPriceSync(store, symbol, useCache, t) ==
    LET normalizedSymbol == normalizeSymbol(symbol)
        limit == checkRateLimit(store, "default", t)
    IN  IF ~isValidStockSymbol(normalizedSymbol)
        THEN [store |-> store, limited |-> FALSE,
              call |-> Invocation("done", normalizedSymbol, useCache,
                          Thrown("Invalid stock symbol format"))]
        ELSE IF ~limit.allowed
        THEN [store |-> limit.store, limited |-> TRUE,
              call |-> Invocation("done", normalizedSymbol, useCache,
                          Thrown("Rate limit exceeded"))]
        ELSE [store |-> limit.store, limited |-> TRUE,
              call |-> Invocation(IF useCache THEN "cache" ELSE "api",
                                  normalizedSymbol, useCache, NoResult)]

\* the quote source's answers; a price of 0 stands for a missing field
Responses ==
    [status : {"ok"}, regularMarketPrice : 0..MaxPrice, previousClose : {0, 1}]
    \cup [status : {"nodata", "404", "timeout", "error"},
          regularMarketPrice : {0}, previousClose : {0}]

\* fetchPriceFromAPI from the moment axios.get settles
fetchPriceFromAPI(table, symbol, response, t) ==
    LET normalizedSymbol == normalizeSymbol(symbol)
        currentPrice == IF response.regularMarketPrice # 0
                        THEN response.regularMarketPrice
                        ELSE response.previousClose
        fail(message) == [table |-> table, result |-> Thrown(message)]
    IN  CASE response.status = "ok" /\ currentPrice # 0 ->
                [table |-> updatePriceCache(table, normalizedSymbol, currentPrice, t),
                 result |-> Price(normalizedSymbol, currentPrice)]
          [] response.status = "404" -> fail("Stock symbol not found")
          [] response.status = "timeout" -> fail("Request timeout")
          [] OTHER -> fail("Failed to fetch price")

\* the lookups are not caught
catchEntry_Rethrow(call) == call

\* the .catch of getMultipleStockPrices: a failed lookup becomes an entry
catchEntry(call) ==
    IF call.result.kind = "thrown"
    THEN [call EXCEPT !.result = [kind |-> "entry", symbol |-> call.symbol,
                                  price |-> 0, error |-> call.result.error]]
    ELSE call

\* symbols.map(symbol => getStockPrice(symbol, useCache).catch(...)): the
\* synchronous segments of the lookups run one after the other, those of
\* the first half of the list before those of the rest.  `asked` lists, for
\* the lookups that reached the limiter, the store they met.
RECURSIVE startAll(_, _, _, _)
startAll(store, symbols, useCache, t) ==
    IF symbols = <<>>
    THEN [subs |-> <<>>, asked |-> <<>>, store |-> store]
    ELSE IF Len(symbols) = 1
    THEN LET r == getStockPriceSync(store, symbols[1], useCache, t)
         IN  [subs |-> <<catchEntry(r.call)>>,
              asked |-> <<[limited |-> r.limited, before |-> store,
                           after |-> r.store, call |-> r.call]>>,
              store |-> r.store]
    ELSE LET half == Len(symbols) \div 2
             first == startAll(store, SubSeq(symbols, 1, half), useCache, t)
             rest == startAll(first.store,
                              SubSeq(symbols, half + 1, Len(symbols)), useCache, t)
         IN  [subs |-> first.subs \o rest.subs,
              asked |-> first.asked \o rest.asked,
              store |-> rest.store]

\* searchStockSymbols up to its first await; a denial is caught and gives []
searchStockSymbolsSync(store, t) ==
    LET limit == checkRateLimit(store, "search", t)
    IN  [store |-> limit.store,
         call |-> IF limit.allowed
                  THEN Invocation("search", <<>>, FALSE, NoResult)
                  ELSE Invocation("done", <<>>, FALSE,
                           [NoResult EXCEPT !.kind = "symbols",
                                            !.error = "Search rate limit exceeded"])]

\* clearExpiredCache: deleteMany where updatedAt < now - CACHE_DURATION
clearExpiredCache(table, t) == {r \in table : ~(r.updatedAt < t - CACHE_DURATION)}

----------------------------------------------------------------------------
(* History of the limiter's answers, kept beside the code's own record: a    *)
(* window of a key opens with the first call made after the previous window  *)
(* has elapsed and lasts RATE_LIMIT_WINDOW.                                  *)

NoWindow == [opened |-> -1, calls |-> 0, grants |-> 0, ok |-> TRUE, kept |-> TRUE,
             revived |-> FALSE]

Saturate(n) == IF n > RATE_LIMIT_REQUESTS + 1 THEN RATE_LIMIT_REQUESTS + 1 ELSE n

\* one allow(key) call at time t that answered `allowed`; `same` tells
\* whether it left the stored records as they were, `revived` whether it is
\* the first call after a window in which the key was denied
Observe(mon, key, t, allowed, same) ==
    LET m == mon[key]
        inWindow == m.opened >= 0 /\ t <= m.opened + RATE_LIMIT_WINDOW
        seen == IF inWindow THEN m.calls ELSE 0
        granted == IF inWindow THEN m.grants ELSE 0
    IN  [mon EXCEPT ![key] =
            [opened |-> IF inWindow THEN m.opened ELSE t,
             calls |-> Saturate(seen + 1),
             grants |-> Saturate(granted + (IF allowed THEN 1 ELSE 0)),
             ok |-> m.ok /\ (allowed <=> seen < RATE_LIMIT_REQUESTS),
             kept |-> m.kept /\ (allowed \/ same),
             revived |-> ~inWindow /\ m.opened >= 0 /\ m.calls > m.grants]]

Denied(call) == call.result.error = "Rate limit exceeded"

\* the answers the lookups of one batch got, in order
RECURSIVE ObserveAll(_, _, _)
ObserveAll(mon, asked, t) ==
    IF asked = <<>> THEN mon
    ELSE LET a == Head(asked)
         IN  ObserveAll(IF a.limited
                        THEN Observe(mon, "default", t, ~Denied(a.call),
                                     a.after = a.before)
                        ELSE mon,
                        Tail(asked), t)

----------------------------------------------------------------------------
\* the number of invocations in flight
RECURSIVE Pending(_)
Pending(requests) ==
    IF requests = {} THEN 0
    ELSE LET r == CHOOSE x \in requests : TRUE
         IN  CopiesIn(r, calls) * Len(r.subs) + Pending(requests \ {r})

InFlight == Pending(BagToSet(calls))

Settled(call) == \A i \in DOMAIN call.subs : call.subs[i].pc = "done"

\* the number of lookups that are left pending
Unsettled(subs) == Cardinality({i \in DOMAIN subs : subs[i].pc # "done"})

\* a request is made: it is in flight while one of its invocations is
\* pending, and is handed to the caller once all are settled
Launch(call) ==
    IF Settled(call)
    THEN /\ calls' = calls
         /\ returned' = call
    ELSE /\ calls' = calls (+) SetToBag({call})
         /\ returned' = IdleCall

\* the request `old` in flight becomes `call`
Proceed(old, call) ==
    IF Settled(call)
    THEN /\ calls' = calls (-) SetToBag({old})
         /\ returned' = call
    ELSE /\ calls' = (calls (-) SetToBag({old})) (+) SetToBag({call})
         /\ returned' = IdleCall

----------------------------------------------------------------------------
(* Rows and values of the application *)

\* the currentPrice prop is undefined
Absent == -1

\* an Alert row; the timestamps are left out
Alert(id, symbol, targetPrice, condition, isActive) ==
    [id |-> id, symbol |-> symbol, targetPrice |-> targetPrice,
     condition |-> condition, isActive |-> isActive]

NoAlert == Alert(0, <<>>, 0, "", FALSE)

\* no card has been rendered
NoCard ==
    [alert |-> NoAlert, currentPrice |-> Absent, statusText |-> "",
     statusColor |-> ""]

\* no request has been made to the alerts route
NoResponse == [status |-> 0, error |-> ""]

\* no evaluation cycle has run
NoCycle == [events |-> {}, recorded |-> {}]

\* the gateway was not asked
NoAnswer == [error |-> "", results |-> <<>>]

\* no dispatch was made
NoDispatch ==
    [op |-> "none", tokens |-> <<>>, answer |-> NoAnswer, thrown |-> FALSE,
     ok |-> FALSE, successCount |-> 0]

Init ==
    /\ now = 0
    /\ rateLimitStore = <<>>
    /\ stockPrices = {}
    /\ calls = EmptyBag
    /\ returned = IdleCall
    /\ monitor = [k \in Keys |-> NoWindow]
    /\ alerts = {}
    /\ triggeredAlerts = {}
    /\ cuid = 0
    /\ cycle = NoCycle
    /\ card = NoCard
    /\ reply = NoResponse
    /\ creating = EmptyBag
    /\ deviceTokens = {}
    /\ dispatch = NoDispatch

Tick ==
    /\ now < MaxTime
    /\ now' = now + 1
    /\ returned' = IdleCall
    /\ UNCHANGED <<rateLimitStore, stockPrices, calls, monitor, appVars, pushVars>>

\* an invocation of getStockPrice for the symbol has not settled yet
InFlightFor(symbol) ==
    \E r \in BagToSet(calls) : \E i \in DOMAIN r.subs :
        r.subs[i].symbol = symbol /\ r.subs[i].pc \in {"cache", "api"}

\* single-flight: a call made while a lookup of its symbol is in flight does
\* not ask the limiter
GetStockPrice_SingleFlight(symbol, useCache) ==
    /\ InFlight < MaxInFlight
    /\ LET joins == InFlightFor(normalizeSymbol(symbol))
           r == getStockPriceSync(IF joins THEN <<>> ELSE rateLimitStore,
                                  symbol, useCache, now)
       IN  /\ rateLimitStore' = IF joins THEN rateLimitStore ELSE r.store
           /\ Launch([op |-> "price", subs |-> <<r.call>>])
           /\ monitor' = IF r.limited /\ ~joins
                         THEN Observe(monitor, "default", now, ~Denied(r.call),
                                      r.store = rateLimitStore)
                         ELSE monitor
    /\ UNCHANGED <<now, stockPrices, appVars, pushVars>>

\* getStockPrice(symbol, useCache) is called
GetStockPrice(symbol, useCache) ==
    /\ InFlight < MaxInFlight
    /\ LET r == getStockPriceSync(rateLimitStore, symbol, useCache, now)
       IN  /\ rateLimitStore' = r.store
           /\ Launch([op |-> "price", subs |-> <<r.call>>])
           /\ monitor' = IF r.limited
                         THEN Observe(monitor, "default", now, ~Denied(r.call),
                                      r.store = rateLimitStore)
                         ELSE monitor
    /\ UNCHANGED <<now, stockPrices, appVars, pushVars>>

\* getMultipleStockPrices(symbols, useCache) is called
GetMultipleStockPrices(symbols, useCache) ==
    /\ LET r == startAll(rateLimitStore, symbols, useCache, now)
       IN  /\ InFlight + Unsettled(r.subs) <= MaxInFlight
           /\ rateLimitStore' = r.store
           /\ Launch([op |-> "batch", subs |-> r.subs])
           /\ monitor' = ObserveAll(monitor, r.asked, now)
    /\ UNCHANGED <<now, stockPrices, appVars, pushVars>>

\* searchStockSymbols(query) is called
SearchStockSymbols ==
    /\ InFlight < MaxInFlight
    /\ LET r == searchStockSymbolsSync(rateLimitStore, now)
       IN  /\ rateLimitStore' = r.store
           /\ Launch([op |-> "search", subs |-> <<r.call>>])
           /\ monitor' = Observe(monitor, "search", now, r.call.pc = "search",
                                 r.store = rateLimitStore)
    /\ UNCHANGED <<now, stockPrices, appVars, pushVars>>

\* a failure reaches the caller of getStockPrice as it is, and the caller of
\* getMultipleStockPrices as an entry of the result
Settle(request, call) == IF request.op = "batch" THEN catchEntry(call) ELSE call

\* the cache lookup of a getStockPrice invocation resolves
CacheLookup(request, i) ==
    /\ BagIn(request, calls)
    /\ i \in DOMAIN request.subs
    /\ request.subs[i].pc = "cache"
    /\ LET cachedPrice == getCachedPrice(stockPrices, request.subs[i].symbol, now)
       IN  Proceed(request, [request EXCEPT !.subs[i] =
                IF cachedPrice.hit
                THEN [@ EXCEPT !.pc = "done",
                               !.result = Price(cachedPrice.symbol,
                                                cachedPrice.price)]
                ELSE [@ EXCEPT !.pc = "api"]])
    /\ UNCHANGED <<now, rateLimitStore, stockPrices, monitor, appVars, pushVars>>

\* the quote source answers a getStockPrice invocation
ApiResponse(request, i, response) ==
    /\ BagIn(request, calls)
    /\ i \in DOMAIN request.subs
    /\ request.subs[i].pc = "api"
    /\ LET r == fetchPriceFromAPI(stockPrices, request.subs[i].symbol, response, now)
       IN  /\ stockPrices' = r.table
           /\ Proceed(request, [request EXCEPT !.subs[i] =
                 Settle(request, [@ EXCEPT !.pc = "done", !.result = r.result])])
    /\ UNCHANGED <<now, rateLimitStore, monitor, appVars, pushVars>>

\* the search request settles: the symbols found, or [] after an error
SearchResponse(request, found) ==
    /\ BagIn(request, calls)
    /\ request.op = "search"
    /\ request.subs[1].pc = "search"
    /\ Proceed(request, [request EXCEPT !.subs[1] =
                    [@ EXCEPT !.pc = "done",
                              !.result = [NoResult EXCEPT !.kind = "symbols",
                                     !.error = IF found THEN "" ELSE "search failed"]]])
    /\ UNCHANGED <<now, rateLimitStore, stockPrices, monitor, appVars, pushVars>>

----------------------------------------------------------------------------
(* The prices route: requests for several symbols *)

\* z.array(z.string().min(1).max(10)).min(1).max(20)
multiplePricesSchema(symbols) ==
    /\ Len(symbols) >= 1
    /\ Len(symbols) <= MAX_SYMBOLS
    /\ \A i \in 1..Len(symbols) :
          Len(symbols[i]) >= 1 /\ Len(symbols[i]) <= MAX_SYMBOL_LENGTH

\* symbols.split(',').map(s => s.trim()).filter(Boolean)
symbolArray(symbols) ==
    SelectSeq([i \in 1..Len(symbols) |-> trim(symbols[i])], LAMBDA x : x # <<>>)

invalidSymbols(symbols) ==
    SelectSeq(symbols, LAMBDA x : ~isValidStockSymbol(normalizeSymbol(x)))

\* a response with status 400 and the error `message`
Rejected(message) ==
    [op |-> "rejected",
     subs |-> <<Invocation("done", <<>>, FALSE, Thrown(message))>>]

Reject(message) ==
    /\ returned' = Rejected(message)
    /\ UNCHANGED <<now, rateLimitStore, stockPrices, calls, monitor, appVars, pushVars>>

\* the symbols of the request are not validated one by one
GetPrices_Unchecked(symbols, useCache) ==
    IF ~multiplePricesSchema(symbolArray(symbols))
    THEN Reject("Invalid symbols parameter")
    ELSE GetMultipleStockPrices(symbolArray(symbols), useCache)

\* GET /api/prices?symbols=...
GetPrices(symbols, useCache) ==
    IF ~multiplePricesSchema(symbolArray(symbols))
    THEN Reject("Invalid symbols parameter")
    ELSE IF invalidSymbols(symbolArray(symbols)) # <<>>
    THEN Reject("Invalid stock symbol format")
    ELSE GetMultipleStockPrices(symbolArray(symbols), useCache)

\* POST /api/prices with body {symbols: [...]}: a forced refresh
PostPrices(symbols) ==
    IF ~multiplePricesSchema(symbols)
    THEN Reject("Invalid symbols parameter")
    ELSE IF invalidSymbols(symbols) # <<>>
    THEN Reject("Invalid stock symbol format")
    ELSE GetMultipleStockPrices(symbols, FALSE)

ClearExpiredCache ==
    /\ stockPrices' = clearExpiredCache(stockPrices, now)
    /\ returned' = IdleCall
    /\ UNCHANGED <<now, rateLimitStore, calls, monitor, appVars, pushVars>>

----------------------------------------------------------------------------
(* Alert card (src/src/components/AlertCard.tsx).  Prices are whole numbers *)
(* of the smallest unit of the currency.                                    *)

Conditions == {"ABOVE", "BELOW"}

\* !currentPrice
falsy(currentPrice) == currentPrice = Absent \/ currentPrice = 0

getStatusColor(alert, currentPrice) ==
    IF ~alert.isActive THEN "gray"
    ELSE IF falsy(currentPrice) THEN "yellow"
    ELSE IF alert.condition = "ABOVE"
    THEN (IF currentPrice >= alert.targetPrice THEN "green" ELSE "blue")
    ELSE (IF currentPrice <= alert.targetPrice THEN "red" ELSE "blue")

\* the comparisons are strict
getStatusText_Strict(alert, currentPrice) ==
    IF ~alert.isActive THEN "Inactive"
    ELSE IF falsy(currentPrice) THEN "Loading price..."
    ELSE IF alert.condition = "ABOVE"
    THEN (IF currentPrice > alert.targetPrice
          THEN "Target Reached!" ELSE "Monitoring...")
    ELSE (IF currentPrice < alert.targetPrice
          THEN "Target Reached!" ELSE "Monitoring...")

\* a price of 0 is compared with the target as any other price is
getStatusText_ZeroIsPrice(alert, currentPrice) ==
    IF ~alert.isActive THEN "Inactive"
    ELSE IF currentPrice = Absent THEN "Loading price..."
    ELSE IF alert.condition = "ABOVE"
    THEN (IF currentPrice >= alert.targetPrice
          THEN "Target Reached!" ELSE "Monitoring...")
    ELSE (IF currentPrice <= alert.targetPrice
          THEN "Target Reached!" ELSE "Monitoring...")

getStatusText(alert, currentPrice) ==
    IF ~alert.isActive THEN "Inactive"
    ELSE IF falsy(currentPrice) THEN "Loading price..."
    ELSE IF alert.condition = "ABOVE"
    THEN (IF currentPrice >= alert.targetPrice
          THEN "Target Reached!" ELSE "Monitoring...")
    ELSE (IF currentPrice <= alert.targetPrice
          THEN "Target Reached!" ELSE "Monitoring...")

\* the card of a stored alert is rendered with the current price it is given
AlertCard(alert, currentPrice) ==
    /\ alert \in alerts
    /\ card' = [alert |-> alert, currentPrice |-> currentPrice,
                statusText |-> getStatusText(alert, currentPrice),
                statusColor |-> getStatusColor(alert, currentPrice)]
    /\ UNCHANGED <<libVars, pushVars, creating, alerts, triggeredAlerts, cuid, cycle, reply>>

----------------------------------------------------------------------------
(* Alerts route (src/src/app/api/alerts/route.ts).  A handler is one step:  *)
(* the requests of the route are made one at a time.                        *)

Respond(status, error) == reply' = [status |-> status, error |-> error]

\* z.object({symbol: z.string().min(1).max(10), targetPrice:
\* z.number().positive(), condition: z.enum(['ABOVE', 'BELOW'])})
createAlertSchema(symbol, targetPrice, condition) ==
    /\ Len(symbol) >= 1
    /\ Len(symbol) <= MAX_SYMBOL_LENGTH
    /\ targetPrice > 0
    /\ condition \in Conditions

\* POST /api/alerts
CreateAlert(symbol, targetPrice, condition) ==
    /\ cuid < MaxRows
    /\ IF ~createAlertSchema(symbol, targetPrice, condition)
       THEN Respond(400, "Invalid request data") /\ UNCHANGED <<alerts, cuid>>
       ELSE IF ~isValidStockSymbol(normalizeSymbol(symbol))
       THEN Respond(400, "Invalid stock symbol format") /\ UNCHANGED <<alerts, cuid>>
       ELSE IF \E a \in alerts : /\ a.symbol = normalizeSymbol(symbol)
                                 /\ a.targetPrice = targetPrice
                                 /\ a.condition = condition
                                 /\ a.isActive
       THEN /\ Respond(409, "An active alert with the same parameters already exists")
            /\ UNCHANGED <<alerts, cuid>>
       ELSE /\ alerts' = alerts \cup {Alert(cuid + 1, normalizeSymbol(symbol),
                                            targetPrice, condition, TRUE)}
            /\ cuid' = cuid + 1
            /\ Respond(201, "")
    /\ UNCHANGED <<libVars, pushVars, creating, triggeredAlerts, cycle, card>>

\* POST /api/alerts up to its await of prisma.alert.create: the request is
\* validated and findFirst has looked for an active alert with the same
\* parameters; a request that passes is left to insert its row
PostAlertCheck(symbol, targetPrice, condition) ==
    /\ BagCardinality(creating) < MaxInFlight
    /\ IF ~createAlertSchema(symbol, targetPrice, condition)
       THEN Respond(400, "Invalid request data") /\ UNCHANGED creating
       ELSE IF ~isValidStockSymbol(normalizeSymbol(symbol))
       THEN Respond(400, "Invalid stock symbol format") /\ UNCHANGED creating
       ELSE IF \E a \in alerts : /\ a.symbol = normalizeSymbol(symbol)
                                 /\ a.targetPrice = targetPrice
                                 /\ a.condition = condition
                                 /\ a.isActive
       THEN /\ Respond(409, "An active alert with the same parameters already exists")
            /\ UNCHANGED creating
       ELSE /\ creating' = creating (+) SetToBag({[symbol |-> normalizeSymbol(symbol),
                                                   targetPrice |-> targetPrice,
                                                   condition |-> condition]})
            /\ UNCHANGED reply
    /\ UNCHANGED <<libVars, pushVars, alerts, triggeredAlerts, cuid, cycle, card>>

\* POST /api/alerts from prisma.alert.create on: the row is inserted and
\* the request answered 201
PostAlertCreate(request) ==
    /\ BagIn(request, creating)
    /\ cuid < MaxRows
    /\ creating' = creating (-) SetToBag({request})
    /\ alerts' = alerts \cup {Alert(cuid + 1, request.symbol, request.targetPrice,
                                     request.condition, TRUE)}
    /\ cuid' = cuid + 1
    /\ Respond(201, "")
    /\ UNCHANGED <<libVars, pushVars, triggeredAlerts, cycle, card>>

\* the fields of an update: those the request gives
Fields == {"symbol", "targetPrice", "condition", "isActive"}

\* updateAlertSchema: every field but the id is optional
updateAlertSchema(updateData) ==
    /\ DOMAIN updateData \subseteq Fields
    /\ "symbol" \in DOMAIN updateData =>
          Len(updateData.symbol) >= 1 /\ Len(updateData.symbol) <= MAX_SYMBOL_LENGTH
    /\ "targetPrice" \in DOMAIN updateData => updateData.targetPrice > 0
    /\ "condition" \in DOMAIN updateData => updateData.condition \in Conditions

\* an update that stores the symbol as the request gives it
update_Raw(row, updateData) ==
    [f \in DOMAIN row |-> IF f \in DOMAIN updateData THEN updateData[f] ELSE row[f]]

\* prisma.alert.update({where: {id}, data: updateData})
update(row, updateData) ==
    [f \in DOMAIN row |->
        IF f = "symbol" /\ f \in DOMAIN updateData
        THEN normalizeSymbol(updateData.symbol)
        ELSE IF f \in DOMAIN updateData THEN updateData[f] ELSE row[f]]

\* an update of the alert that rewrites the rows of triggered_alerts of the
\* alert to its new values
UpdateAlert_Propagate(id, updateData) ==
    /\ IF ~updateAlertSchema(updateData)
       THEN Respond(400, "Invalid request data") /\ UNCHANGED <<alerts, triggeredAlerts>>
       ELSE IF /\ "symbol" \in DOMAIN updateData
               /\ ~isValidStockSymbol(normalizeSymbol(updateData.symbol))
       THEN /\ Respond(400, "Invalid stock symbol format")
            /\ UNCHANGED <<alerts, triggeredAlerts>>
       ELSE IF ~\E a \in alerts : a.id = id
       THEN Respond(404, "Alert not found") /\ UNCHANGED <<alerts, triggeredAlerts>>
       ELSE /\ alerts' = {IF a.id = id THEN update(a, updateData) ELSE a :
                             a \in alerts}
            /\ triggeredAlerts' =
                  {IF t.alertId = id
                   THEN update(t, [f \in DOMAIN updateData \ {"isActive"} |->
                                      updateData[f]])
                   ELSE t : t \in triggeredAlerts}
            /\ Respond(200, "")
    /\ UNCHANGED <<libVars, pushVars, creating, cuid, cycle, card>>

\* PUT /api/alerts
UpdateAlert(id, updateData) ==
    /\ IF ~updateAlertSchema(updateData)
       THEN Respond(400, "Invalid request data") /\ alerts' = alerts
       ELSE IF /\ "symbol" \in DOMAIN updateData
               /\ ~isValidStockSymbol(normalizeSymbol(updateData.symbol))
       THEN Respond(400, "Invalid stock symbol format") /\ alerts' = alerts
       ELSE IF ~\E a \in alerts : a.id = id
       THEN Respond(404, "Alert not found") /\ alerts' = alerts
       ELSE /\ alerts' = {IF a.id = id THEN update(a, updateData) ELSE a :
                             a \in alerts}
            /\ Respond(200, "")
    /\ UNCHANGED <<libVars, pushVars, creating, triggeredAlerts, cuid, cycle, card>>

\* a delete that leaves the rows of triggered_alerts where they are
DeleteAlerts_NoCascade(alertIds) ==
    /\ IF alertIds = {}
       THEN /\ Respond(400, "No valid alert IDs provided")
            /\ UNCHANGED <<alerts, triggeredAlerts>>
       ELSE /\ alerts' = {a \in alerts : a.id \notin alertIds}
            /\ triggeredAlerts' = triggeredAlerts
            /\ Respond(200, "")
    /\ UNCHANGED <<libVars, pushVars, creating, cuid, cycle, card>>

\* DELETE /api/alerts?id=... or ?ids=...; the rows of triggered_alerts that
\* refer to a deleted alert go with it (onDelete: Cascade)
DeleteAlerts(alertIds) ==
    /\ IF alertIds = {}
       THEN /\ Respond(400, "No valid alert IDs provided")
            /\ UNCHANGED <<alerts, triggeredAlerts>>
       ELSE /\ alerts' = {a \in alerts : a.id \notin alertIds}
            /\ triggeredAlerts' = {t \in triggeredAlerts : t.alertId \notin alertIds}
            /\ Respond(200, "")
    /\ UNCHANGED <<libVars, pushVars, creating, cuid, cycle, card>>

----------------------------------------------------------------------------
(* Alert Matcher and Trigger Recorder.  The repository declares the         *)
(* triggered_alerts table and the onMarkAsRead callback and has no code     *)
(* that writes them: these definitions follow sections 4.3 and 4.4 of the   *)
(* specification.                                                           *)

\* a TriggeredAlert row as the recorder inserts it: the snapshot of the
\* alert, the actual price, and isRead false
TriggeredAlert(id, alert, actualPrice) ==
    [id |-> id, alertId |-> alert.id, symbol |-> alert.symbol,
     targetPrice |-> alert.targetPrice, actualPrice |-> actualPrice,
     condition |-> alert.condition, isRead |-> FALSE]

\* crossed = (condition==ABOVE && price >= target) ||
\*           (condition==BELOW && price <= target)
crossed(alert, price) ==
    \/ alert.condition = "ABOVE" /\ price >= alert.targetPrice
    \/ alert.condition = "BELOW" /\ price <= alert.targetPrice

\* evaluate(activeAlerts, priceLookup): one CrossingEvent per alert found
\* crossed; an alert whose price is not resolved is skipped
evaluate(activeAlerts, priceLookup) ==
    {[alert |-> a, actualPrice |-> priceLookup[a.symbol]] :
        a \in {b \in activeAlerts : /\ priceLookup[b.symbol] # Absent
                                    /\ crossed(b, priceLookup[b.symbol])}}

\* the unread rows of the alert
Unread(table, alertId) == {t \in table : t.alertId = alertId /\ ~t.isRead}

\* every crossing event is recorded
record_Always(table, event, id) ==
    table \cup {TriggeredAlert(id, event.alert, event.actualPrice)}

\* an alert that has triggered once is not recorded again
record_Once(table, event, id) ==
    IF \E t \in table : t.alertId = event.alert.id
    THEN table
    ELSE table \cup {TriggeredAlert(id, event.alert, event.actualPrice)}

\* record(crossingEvent): a NoOp while an unread TriggeredAlert of the alert
\* exists, an insert otherwise
record(table, event, id) ==
    IF Unread(table, event.alert.id) # {}
    THEN table
    ELSE table \cup {TriggeredAlert(id, event.alert, event.actualPrice)}

\* the events of a cycle are recorded one after the other, each insert with
\* the next identity
RECURSIVE recordAll(_, _, _)
recordAll(table, events, last) ==
    IF events = {} THEN [table |-> table, last |-> last]
    ELSE LET event == CHOOSE e \in events :
                          \A f \in events : e.alert.id <= f.alert.id
             next == record(table, event, last + 1)
         IN  recordAll(next, events \ {event},
                       IF next = table THEN last ELSE last + 1)

\* one evaluation cycle: the active alerts are matched against the prices
\* and the crossings recorded; the alerts stay active
Evaluate(priceLookup) ==
    LET events == evaluate({a \in alerts : a.isActive}, priceLookup)
        r == recordAll(triggeredAlerts, events, cuid)
    IN  /\ r.last <= MaxRows
        /\ triggeredAlerts' = r.table
        /\ cuid' = r.last
        /\ cycle' = [events |-> {e.alert.id : e \in events},
                     recorded |-> {t.id : t \in r.table \ triggeredAlerts}]
        /\ UNCHANGED <<libVars, pushVars, creating, alerts, card, reply>>

\* the user marks a TriggeredAlert as read
MarkAsRead(id) ==
    /\ \E t \in triggeredAlerts : t.id = id
    /\ triggeredAlerts' = {IF t.id = id THEN [t EXCEPT !.isRead = TRUE] ELSE t :
                              t \in triggeredAlerts}
    /\ UNCHANGED <<libVars, pushVars, creating, alerts, cuid, cycle, card, reply>>

----------------------------------------------------------------------------
(* Device tokens and push dispatch: POST /api/notifications and the         *)
(* server-side senders of lib/firebase.                                     *)

\* the device tokens of the requests, and the empty string
Tokens == {"t1", "t2", "t3"}
RawTokens == Tokens \cup {""}

\* the userId of a request: not given, or a user
UserIds == {"undefined", "u1"}

\* a row of device_tokens; token is @unique
DeviceToken(id, token, userId, isActive, createdAt, updatedAt) ==
    [id |-> id, token |-> token, userId |-> userId, isActive |-> isActive,
     createdAt |-> createdAt, updatedAt |-> updatedAt]

\* z.object({token: z.string().min(1), userId: z.string().optional()})
tokenSchema(token, userId) == token # ""

\* every registration inserts a row
upsert_Insert(table, id, token, userId, at) ==
    table \cup {DeviceToken(id, token,
                            IF userId = "undefined" THEN "null" ELSE userId,
                            TRUE, at, at)}

\* prisma.deviceToken.upsert({where: {token}, update: {userId, isActive:
\* true, updatedAt}, create: {token, userId, isActive: true}}); a userId
\* that is not given leaves the column of the row as it is
upsert(table, id, token, userId, at) ==
    IF \E d \in table : d.token = token
    THEN {IF d.token = token
          THEN [d EXCEPT !.userId = IF userId = "undefined" THEN @ ELSE userId,
                         !.isActive = TRUE,
                         !.updatedAt = at]
          ELSE d : d \in table}
    ELSE table \cup {DeviceToken(id, token,
                                 IF userId = "undefined" THEN "null" ELSE userId,
                                 TRUE, at, at)}

\* POST /api/notifications
RegisterToken(token, userId) ==
    /\ (\E d \in deviceTokens : d.token = token) \/ cuid < MaxRows
    /\ IF ~tokenSchema(token, userId)
       THEN Respond(400, "Invalid request data") /\ UNCHANGED <<deviceTokens, cuid>>
       ELSE /\ deviceTokens' = upsert(deviceTokens, cuid + 1, token, userId, now)
            /\ cuid' = IF Cardinality(deviceTokens') > Cardinality(deviceTokens)
                       THEN cuid + 1 ELSE cuid
            /\ Respond(200, "")
    /\ UNCHANGED <<libVars, alerts, triggeredAlerts, cycle, card, creating, dispatch>>

\* what the gateway does with one token: it delivers, it reports the token
\* as not registered, or it reports a failure that passes (quota, outage)
Outcomes == {"ok", "invalid", "transient"}

\* what a dispatch meets: the admin SDK cannot be initialised
\* (getFirebaseAdmin throws), the call to the gateway is rejected, or the
\* gateway answers with one result per token
GatewayAnswers(n) ==
    {[error |-> e, results |-> <<>>] : e \in {"misconfigured", "unreachable"}}
        \cup {[error |-> "", results |-> r] : r \in [1..n -> Outcomes]}

\* sendPushNotification: messaging.send rejects unless the token is
\* delivered to, and every error inside the try is caught and turned into
\* false; off the server the function throws
sendPushNotification(window, answer) ==
    IF window
    THEN [thrown |-> TRUE, ok |-> FALSE]
    ELSE IF answer.error # "" \/ answer.results[1] # "ok"
    THEN [thrown |-> FALSE, ok |-> FALSE]
    ELSE [thrown |-> FALSE, ok |-> TRUE]

\* the results before the first one with an error
RECURSIVE UntilFailure(_)
UntilFailure(results) ==
    IF results = <<>> \/ Head(results) # "ok" THEN 0
    ELSE 1 + UntilFailure(Tail(results))

\* a count that stops at the first result with an error
sendBulkPushNotifications_UntilFailure(window, tokens, answer) ==
    IF window
    THEN [thrown |-> TRUE, successCount |-> 0]
    ELSE IF Len(tokens) = 0 \/ answer.error # ""
    THEN [thrown |-> FALSE, successCount |-> 0]
    ELSE [thrown |-> FALSE, successCount |-> UntilFailure(answer.results)]

\* sendBulkPushNotifications: 0 for no tokens, 0 for every error caught,
\* and otherwise the number of the results without an error
sendBulkPushNotifications(window, tokens, answer) ==
    IF window
    THEN [thrown |-> TRUE, successCount |-> 0]
    ELSE IF Len(tokens) = 0 \/ answer.error # ""
    THEN [thrown |-> FALSE, successCount |-> 0]
    ELSE [thrown |-> FALSE,
          successCount |-> Cardinality({i \in DOMAIN answer.results :
                                           answer.results[i] = "ok"})]

\* one dispatch to one token; the gateway is asked on the server only
SendPushNotification(window, token, answer) ==
    LET r == sendPushNotification(window, answer)
    IN  /\ dispatch' = [op |-> "single", tokens |-> <<token>>,
                        answer |-> IF window THEN NoAnswer ELSE answer,
                        thrown |-> r.thrown, ok |-> r.ok, successCount |-> 0]
        /\ UNCHANGED <<libVars, appVars, deviceTokens>>

\* a dispatch that switches off the rows of the tokens it failed for
SendBulkPushNotifications_Deactivate(window, tokens, answer) ==
    LET r == sendBulkPushNotifications(window, tokens, answer)
        asked == ~window /\ Len(tokens) > 0
        failed == IF asked /\ answer.error = ""
                  THEN {tokens[i] : i \in {j \in DOMAIN tokens :
                                              answer.results[j] # "ok"}}
                  ELSE {}
    IN  /\ dispatch' = [op |-> "bulk", tokens |-> tokens,
                        answer |-> IF asked THEN answer ELSE NoAnswer,
                        thrown |-> r.thrown, ok |-> FALSE,
                        successCount |-> r.successCount]
        /\ deviceTokens' = {IF d.token \in failed
                            THEN [d EXCEPT !.isActive = FALSE] ELSE d :
                               d \in deviceTokens}
        /\ UNCHANGED <<libVars, appVars>>

\* one dispatch to a list of tokens; the gateway is asked on the server,
\* and for a list that is not empty
SendBulkPushNotifications(window, tokens, answer) ==
    LET r == sendBulkPushNotifications(window, tokens, answer)
        asked == ~window /\ Len(tokens) > 0
    IN  /\ dispatch' = [op |-> "bulk", tokens |-> tokens,
                        answer |-> IF asked THEN answer ELSE NoAnswer,
                        thrown |-> r.thrown, ok |-> FALSE,
                        successCount |-> r.successCount]
        /\ UNCHANGED <<libVars, appVars, deviceTokens>>

\* the symbols the price requests ask for: two that are well formed and one
\* that is not
PlainSymbols == {<<"a">>, <<"Z">>, <<"1">>}

\* the symbols the limiter is exercised with: one well formed and one not
LimiterSymbols == {<<"a">>, <<"1">>}

Batches(symbols) == UNION {[1..n -> symbols] : n \in 1..MaxBatch}

FailedResponses == {r \in Responses : r.status = "error"}

Singles(symbols) ==
    \E symbol \in symbols, useCache \in BOOLEAN : GetStockPrice(symbol, useCache)

\* batches that leave no more than MaxInFlight entries in flight
Multiples(symbols) ==
    \E batch \in Batches(symbols), useCache \in BOOLEAN :
        /\ InFlight + Len(batch) <= MaxInFlight
        /\ GetMultipleStockPrices(batch, useCache)

Searches ==
    \/ SearchStockSymbols
    \/ \E request \in BagToSet(calls), found \in BOOLEAN :
          SearchResponse(request, found)

Lookups ==
    \E request \in BagToSet(calls), i \in 1..MaxBatch : CacheLookup(request, i)

Answers(responses) ==
    \E request \in BagToSet(calls), i \in 1..MaxBatch, response \in responses :
        ApiResponse(request, i, response)

\* the caller awaits each request before it makes the next
Awaited(Request) == calls = EmptyBag /\ Request

Next ==
    \/ Tick
    \/ Singles(RawSymbols)
    \/ Multiples(PlainSymbols)
    \/ Searches
    \/ Lookups
    \/ Answers(Responses)
    \/ ClearExpiredCache

\* the whole library
Spec == Init /\ [][Next]_vars

\* the quote source either quotes or fails
PlainResponses == {r \in Responses : r.status \in {"ok", "error"}}

\* the price cache under the quote-fetch budget: concurrent single lookups of
\* plain symbols
NextPrices ==
    \/ Tick
    \/ Singles(PlainSymbols)
    \/ Lookups
    \/ Answers(PlainResponses)
    \/ ClearExpiredCache

SpecPrices == Init /\ [][NextPrices]_vars

\* the limiter under both keys: lookups, batches and searches of a caller
\* that awaits each, while the quote source is down
NextLimiter ==
    \/ Tick
    \/ Awaited(Singles(LimiterSymbols))
    \/ Awaited(Multiples(LimiterSymbols))
    \/ Awaited(SearchStockSymbols)
    \/ \E request \in BagToSet(calls), found \in BOOLEAN :
          SearchResponse(request, found)
    \/ Lookups
    \/ Answers(FailedResponses)

SpecLimiter == Init /\ [][NextLimiter]_vars

\* the limiter under concurrent lookups, batches and searches while the quote
\* source is down
NextConcurrent ==
    \/ Tick
    \/ Singles(LimiterSymbols)
    \/ Multiples(LimiterSymbols)
    \/ Searches
    \/ Lookups
    \/ Answers(FailedResponses)

SpecConcurrent == Init /\ [][NextConcurrent]_vars

\* the quote source quotes one price
QuotedResponses ==
    {r \in Responses : r.regularMarketPrice = 1 /\ r.previousClose = 0}

\* lookups of symbols in every spelling by a caller that awaits each
NextSymbols ==
    \/ Tick
    \/ Awaited(Singles(RawSymbols))
    \/ Lookups
    \/ Answers(QuotedResponses)

SpecSymbols == Init /\ [][NextSymbols]_vars

\* the quote source in all its answers: lookups of plain symbols by a caller
\* that awaits each
NextSource ==
    \/ Tick
    \/ Awaited(Singles(PlainSymbols))
    \/ Lookups
    \/ Answers(Responses)

SpecSource == Init /\ [][NextSource]_vars

\* the quote source quotes one price or fails
BatchResponses == QuotedResponses \cup FailedResponses

\* batches of a well-formed and a malformed symbol by a caller that awaits
\* each
NextBatch ==
    \/ Tick
    \/ Awaited(Multiples(LimiterSymbols))
    \/ Lookups
    \/ Answers(BatchResponses)

SpecBatch == Init /\ [][NextBatch]_vars

\* the symbols concurrent callers ask for
FlightSymbols == {<<"a">>, <<"Z">>}

\* concurrent lookups of the same and of different symbols
NextFlight ==
    \/ Tick
    \/ Singles(FlightSymbols)
    \/ Lookups
    \/ Answers(BatchResponses)

SpecFlight == Init /\ [][NextFlight]_vars

\* the lists of a bulk request: two symbols, three of which the second is
\* malformed, as many as the route admits, and one more than that
Malformed == <<"Z", "Z", "Z", "Z", "Z", "Z">>

BulkLists ==
    {<<<<"a">>, <<"Z">>>>,
     <<<<"a">>, Malformed, <<"Z">>>>,
     [i \in 1..MAX_SYMBOLS |-> <<"a">>],
     [i \in 1..(MAX_SYMBOLS + 1) |-> <<"a">>]}

BulkCalls ==
    \E symbols \in BulkLists, useCache \in BOOLEAN :
        GetMultipleStockPrices(symbols, useCache)

BulkGets ==
    \E symbols \in BulkLists, useCache \in BOOLEAN : GetPrices(symbols, useCache)

BulkPosts == \E symbols \in BulkLists : PostPrices(symbols)

Entries == \E request \in BagToSet(calls), i \in 1..(MAX_SYMBOLS + 1) :
              \/ CacheLookup(request, i)
              \/ \E response \in BatchResponses : ApiResponse(request, i, response)

\* bulk requests through the library and through the prices route, by a
\* caller that awaits each
NextBulk ==
    \/ Tick
    \/ Awaited(BulkCalls)
    \/ Awaited(BulkGets)
    \/ Awaited(BulkPosts)
    \/ Entries

SpecBulk == Init /\ [][NextBulk]_vars

\* the alerts the route can have stored: active or not, on a well-formed
\* symbol, with a positive target
AlertRows ==
    {Alert(id, <<"A">>, targetPrice, condition, isActive) :
        id \in 1..MaxRows, targetPrice \in 1..MaxPrice,
        condition \in Conditions, isActive \in BOOLEAN}

\* the alerts tables of one row and of two
AlertTables ==
    {{a} : a \in AlertRows}
        \cup {{p[1], p[2]} : p \in {q \in AlertRows \X AlertRows : q[1].id < q[2].id}}

\* the identities handed out for the rows of a table
LastId(table) == CHOOSE id \in 1..MaxRows :
                    /\ \E a \in table : a.id = id
                    /\ \A a \in table : a.id <= id

\* the current prices a card is given: none, the placeholder 0 of a failed
\* lookup, or a price
CurrentPrices == {Absent} \cup 0..MaxPrice

InitCard ==
    /\ now = 0
    /\ rateLimitStore = <<>>
    /\ stockPrices = {}
    /\ calls = EmptyBag
    /\ returned = IdleCall
    /\ monitor = [k \in Keys |-> NoWindow]
    /\ alerts \in AlertTables
    /\ triggeredAlerts = {}
    /\ cuid = LastId(alerts)
    /\ cycle = NoCycle
    /\ card = NoCard
    /\ reply = NoResponse
    /\ creating = EmptyBag
    /\ deviceTokens = {}
    /\ dispatch = NoDispatch

\* the cards of stored alerts under every current price
NextCard ==
    \E alert \in alerts, currentPrice \in CurrentPrices :
        AlertCard(alert, currentPrice)

SpecCard == InitCard /\ [][NextCard]_vars

\* the prices of the entries a bulk result has for the symbol of the alert
EntryPrices(alert) ==
    {returned.subs[i].result.price :
        i \in {j \in DOMAIN returned.subs :
                  /\ returned.op = "batch"
                  /\ returned.subs[j].symbol = alert.symbol}}

InitBoard ==
    /\ InitCard
    /\ Cardinality(alerts) = 1

\* the card of one stored alert, given no price or the price the last bulk
\* result has for its symbol
NextBoard ==
    \/ Awaited(Multiples(LimiterSymbols))
    \/ Lookups
    \/ Answers(BatchResponses)
    \/ \E alert \in alerts :
          \E currentPrice \in {Absent} \cup EntryPrices(alert) :
              AlertCard(alert, currentPrice)

SpecBoard == InitBoard /\ [][NextBoard]_vars

\* the prices of a cycle: per symbol a price, or none
PriceLookups == [{<<"A">>} -> {Absent} \cup 1..MaxPrice]

\* the updates the owner of an alert makes: switching it on and off
Toggles == {[isActive |-> b] : b \in BOOLEAN}

\* the targets of the alerts: the lowest price and the highest
Targets == {1, MaxPrice}

\* alerts on one symbol are created, switched and deleted, cycles evaluate
\* them, and triggered alerts are marked read
NextRecorder ==
    \/ \E targetPrice \in Targets, condition \in Conditions :
          CreateAlert(<<"a">>, targetPrice, condition)
    \/ \E a \in alerts, updateData \in Toggles : UpdateAlert(a.id, updateData)
    \/ \E a \in alerts : DeleteAlerts({a.id})
    \/ \E priceLookup \in PriceLookups : Evaluate(priceLookup)
    \/ \E t \in triggeredAlerts : MarkAsRead(t.id)

SpecRecorder == Init /\ [][NextRecorder]_vars

\* the symbols an alert is moved between
HistorySymbols == {<<"a">>, <<"Z">>}

\* the edits of an alert: each of its fields alone
Patches ==
    Toggles
        \cup {[targetPrice |-> p] : p \in Targets}
        \cup {[condition |-> c] : c \in Conditions}
        \cup {[symbol |-> s] : s \in HistorySymbols}

\* the prices of a cycle over the symbols of the edits: the lowest price
\* for all, or none
HistoryLookups ==
    {[s \in {normalizeSymbol(h) : h \in HistorySymbols} |-> p] :
        p \in {Absent, 1}}

\* the tables a history starts from: one active alert or two on the lowest
\* target, as created, and for each of any of them the row of the cycle that
\* found it crossed
HistoryAlerts ==
    {t \in AlertTables :
        \A a \in t : /\ a.isActive
                     /\ a.id <= Cardinality(t)
                     /\ a.targetPrice = 1}

InitHistory ==
    /\ now = 0
    /\ rateLimitStore = <<>>
    /\ stockPrices = {}
    /\ calls = EmptyBag
    /\ returned = IdleCall
    /\ monitor = [k \in Keys |-> NoWindow]
    /\ alerts \in HistoryAlerts
    /\ \E seen \in SUBSET alerts :
          LET r == recordAll({}, {[alert |-> a, actualPrice |-> a.targetPrice] :
                                     a \in seen}, Cardinality(alerts))
          IN  /\ triggeredAlerts = r.table
              /\ cuid = r.last
    /\ cycle = NoCycle
    /\ card = NoCard
    /\ reply = NoResponse
    /\ creating = EmptyBag
    /\ deviceTokens = {}
    /\ dispatch = NoDispatch

\* alerts with a history of triggers are edited field by field, deleted one
\* by one or in bulk, and evaluated again
NextHistory ==
    \/ \E a \in alerts, updateData \in Patches : UpdateAlert(a.id, updateData)
    \/ \E alertIds \in SUBSET {a.id : a \in alerts} : DeleteAlerts(alertIds)
    \/ \E priceLookup \in HistoryLookups : Evaluate(priceLookup)

SpecHistory == InitHistory /\ [][NextHistory]_vars

\* the lists of tokens a dispatch is made to: each token at most once
TokenLists ==
    {l \in SeqsUpTo(Tokens, Cardinality(Tokens)) :
        \A i, j \in DOMAIN l : l[i] = l[j] => i = j}

\* the rows of the tokens of a list, in the order of their registration
TableOf(tokens, users, isActive) ==
    {DeviceToken(i, tokens[i], users[i], isActive, 0, 0) : i \in DOMAIN tokens}

\* the tables of device tokens of a dispatch: the rows of registered
\* tokens, each active as its registration left it
RegisteredTables ==
    {TableOf(l, [i \in DOMAIN l |-> "null"], TRUE) : l \in TokenLists}

InitPush ==
    /\ now = 0
    /\ rateLimitStore = <<>>
    /\ stockPrices = {}
    /\ calls = EmptyBag
    /\ returned = IdleCall
    /\ monitor = [k \in Keys |-> NoWindow]
    /\ alerts = {}
    /\ triggeredAlerts = {}
    /\ cycle = NoCycle
    /\ card = NoCard
    /\ reply = NoResponse
    /\ creating = EmptyBag
    /\ deviceTokens \in RegisteredTables
    /\ cuid = Cardinality(deviceTokens)
    /\ dispatch = NoDispatch

\* dispatches to one token and to lists of tokens, on the server and off
\* it, under every answer of the gateway
NextPush ==
    \/ \E window \in BOOLEAN, token \in Tokens, answer \in GatewayAnswers(1) :
          SendPushNotification(window, token, answer)
    \/ \E window \in BOOLEAN, tokens \in TokenLists :
          \E answer \in GatewayAnswers(Len(tokens)) :
              SendBulkPushNotifications(window, tokens, answer)

SpecPush == InitPush /\ [][NextPush]_vars

\* the rows a registration can find: left inactive by an earlier cleanup
StaleTables ==
    UNION {{TableOf(l, users, FALSE) : users \in [DOMAIN l -> {"null", "u1"}]} :
              l \in TokenLists}

\* the registrations start after the rows that are there were written
InitTokens ==
    /\ now = 1
    /\ rateLimitStore = <<>>
    /\ stockPrices = {}
    /\ calls = EmptyBag
    /\ returned = IdleCall
    /\ monitor = [k \in Keys |-> NoWindow]
    /\ alerts = {}
    /\ triggeredAlerts = {}
    /\ cycle = NoCycle
    /\ card = NoCard
    /\ reply = NoResponse
    /\ creating = EmptyBag
    /\ deviceTokens \in StaleTables
    /\ cuid = Cardinality(deviceTokens)
    /\ dispatch = NoDispatch

\* tokens are registered, with a user and without, again and again
NextTokens ==
    \E token \in RawTokens, userId \in UserIds : RegisterToken(token, userId)

SpecTokens == InitTokens /\ [][NextTokens]_vars

\* the symbols of the requests: small letters, padded, with a digit, empty
\* once trimmed, and too long
RequestSymbols ==
    {<<"a">>, <<" ", "a", " ">>, <<"1">>, <<" ">>, <<"Z", "Z", "Z", "Z", "Z", "Z">>}

\* the target prices of the requests: zero, the lowest price and the
\* highest
RawTargets == {0, 1, MaxPrice}

\* the edits of the requests, well formed or not: a field alone, or the
\* symbol with the target
RawPatches ==
    {[symbol |-> s] : s \in RequestSymbols}
        \cup {[targetPrice |-> p] : p \in RawTargets}
        \cup {[condition |-> c] : c \in Conditions}
        \cup {[symbol |-> s, targetPrice |-> p] :
                  s \in RequestSymbols, p \in RawTargets}

\* alerts are created, two at a time at most, edited and deleted, with
\* symbols and targets of every kind; an edit may name an alert that is
\* not there
NextValid ==
    \/ /\ Cardinality(alerts) < 2
       /\ \E symbol \in RequestSymbols, targetPrice \in RawTargets,
             condition \in Conditions :
              CreateAlert(symbol, targetPrice, condition)
    \/ \E id \in {a.id : a \in alerts} \cup {cuid + 1}, updateData \in RawPatches :
          UpdateAlert(id, updateData)
    \/ \E a \in alerts : DeleteAlerts({a.id})

SpecValid == Init /\ [][NextValid]_vars

\* the edits that can make two alerts alike: of the target, and switching
\* an alert on and off
UniquePatches == Toggles \cup {[targetPrice |-> p] : p \in Targets}

\* concurrent POSTs of alerts on one symbol, each in two steps, and PUTs
NextUnique ==
    \/ \E targetPrice \in Targets, condition \in Conditions :
          PostAlertCheck(<<"a">>, targetPrice, condition)
    \/ \E request \in BagToSet(creating) : PostAlertCreate(request)
    \/ \E a \in alerts, updateData \in UniquePatches : UpdateAlert(a.id, updateData)

SpecUnique == Init /\ [][NextUnique]_vars

----------------------------------------------------------------------------
(* Vocabulary of the properties *)

\* the requests the step took out of flight and put in flight
Left == BagToSet(calls (-) calls')
Entered == BagToSet(calls' (-) calls)

\* the step is a call of the operation (settled at once, or left in flight)
Called(op) ==
    \/ returned'.op = op /\ calls' = calls
    \/ Left = {} /\ \E r \in Entered : r.op = op

CalledPrice == Called("price")
CalledSearch == Called("search")
CalledBatch == Called("batch")

\* the invocation a getStockPrice or searchStockSymbols call has started
Started ==
    IF calls' = calls THEN returned'.subs[1]
    ELSE (CHOOSE r \in Entered : TRUE).subs[1]

\* the request in flight that took the step, before and after the step
Before == CHOOSE r \in Left : TRUE
Advanced == IF Entered = {} THEN returned' ELSE CHOOSE r \in Entered : TRUE

\* invocation i of a request in flight took a step
Stepped(i) ==
    /\ Left # {}
    /\ i \in DOMAIN Before.subs
    /\ Advanced.subs[i] # Before.subs[i]

\* the invocation before and after the step it took
Was(i) == Before.subs[i]
After(i) == Advanced.subs[i]

\* ^[A-Z]{1,5}$
MatchesTicker(s) ==
    /\ Len(s) \in 1..5
    /\ \A i \in 1..Len(s) : s[i] \in UpperLetters

\* a cache entry of the symbol exists with now - freshness < TTL
Fresh(symbol) ==
    \E r \in stockPrices : r.symbol = symbol /\ now - r.updatedAt < CACHE_DURATION

\* the record of a key, if it has one
Record(store, key) ==
    IF key \in DOMAIN store THEN store[key] ELSE [count |-> 0, resetTime |-> -1]

\* the window of the key is open and its budget is used up
AtBudget(key) ==
    /\ monitor[key].opened >= 0
    /\ now <= monitor[key].opened + RATE_LIMIT_WINDOW
    /\ monitor[key].grants >= RATE_LIMIT_REQUESTS

RateLimited(call) == call.result.kind = "thrown" /\ call.result.error = "Rate limit exceeded"

InvalidSymbol(call) ==
    call.result.kind = "thrown" /\ call.result.error = "Invalid stock symbol format"

----------------------------------------------------------------------------
(* C1: cache hits are unmetered: a getStockPrice(S, TRUE) call made while a  *)
(* fresh entry of S is cached leaves every key's rate-limit record as it     *)
(* was, is not refused and sends nothing to the quote source.                *)
C1_CacheHitUnmetered ==
    [][(CalledPrice /\ Started.useCache /\ Fresh(Started.symbol))
          => /\ rateLimitStore' = rateLimitStore
             /\ Started.pc = "cache"]_vars

(* C2: within one window of a key the first RATE_LIMIT_REQUESTS allow calls  *)
(* answer true and every further call answers false.                         *)
C2_BudgetPerWindow == \A k \in Keys : monitor[k].ok

C2_Witness ==
    \E k \in Keys : /\ monitor[k].calls = RATE_LIMIT_REQUESTS + 1
                    /\ monitor[k].grants = RATE_LIMIT_REQUESTS

(* C3: every stored count lies in 1..RATE_LIMIT_REQUESTS, and a denied       *)
(* allow call leaves the stored records unchanged.                           *)
C3_DenyKeepsRecord ==
    \A k \in Keys :
        /\ k \in DOMAIN rateLimitStore =>
              /\ rateLimitStore[k].count >= 1
              /\ rateLimitStore[k].count <= RATE_LIMIT_REQUESTS
        /\ monitor[k].kept

C3_Witness ==
    \E k \in DOMAIN rateLimitStore :
        /\ monitor[k].calls > monitor[k].grants
        /\ rateLimitStore[k].count = RATE_LIMIT_REQUESTS

(* C4: an allow call on a key that has no record, or whose window has        *)
(* elapsed, sets the count to 1, opens a window that ends at                 *)
(* now + RATE_LIMIT_WINDOW and answers true.                                 *)
OpensWindow(key) ==
    (key \notin DOMAIN rateLimitStore \/ now > rateLimitStore[key].resetTime)
        => /\ key \in DOMAIN rateLimitStore'
           /\ rateLimitStore'[key] = [count |-> 1, resetTime |-> now + RATE_LIMIT_WINDOW]
           /\ Started.pc # "done"

C4_WindowReset ==
    [][/\ (CalledPrice /\ ~InvalidSymbol(Started)) => OpensWindow("default")
       /\ CalledSearch => OpensWindow("search")]_vars

\* a key that was denied in the window before is served again
C4_Witness ==
    \E k \in DOMAIN rateLimitStore :
        /\ monitor[k].revived
        /\ monitor[k].grants = 1
        /\ rateLimitStore[k] = [count |-> 1, resetTime |-> now + RATE_LIMIT_WINDOW]

(* C5: whatever the interleaving of the callers, no increment is lost (the   *)
(* stored count is the number of calls allowed in the window) and no key is  *)
(* allowed more than RATE_LIMIT_REQUESTS calls in one window.                *)
C5_NoLostUpdate ==
    \A k \in Keys :
        /\ monitor[k].grants <= RATE_LIMIT_REQUESTS
        /\ Record(rateLimitStore, k).count = monitor[k].grants

\* the budget is used up while two requests are in flight
C5_Witness ==
    /\ BagCardinality(calls) >= 2
    /\ monitor["default"].grants = RATE_LIMIT_REQUESTS
    /\ monitor["default"].calls > RATE_LIMIT_REQUESTS

(* C6: a price request changes the record of no key but the quote-fetch      *)
(* key, and a search that of no key but the search key.                      *)
C6_PerKey ==
    [][/\ (CalledPrice \/ CalledBatch)
            => Record(rateLimitStore', "search") = Record(rateLimitStore, "search")
       /\ CalledSearch
            => Record(rateLimitStore', "default") = Record(rateLimitStore, "default")]_vars

\* the quote-fetch budget is used up and a search is served all the same
C6_Witness ==
    /\ AtBudget("default")
    /\ monitor["default"].calls > RATE_LIMIT_REQUESTS
    /\ monitor["search"].opened = now
    /\ monitor["search"].grants = 1
    /\ \E r \in BagToSet(calls) : r.op = "search"

(* C7: cache freshness: a getStockPrice(S, TRUE) call made while a fresh     *)
(* entry of S is cached goes on to the cache, and a cache lookup serves the  *)
(* entry iff now < updatedAt + TTL and turns to the quote source otherwise.  *)
ServedIffFresh(i) ==
    (Stepped(i) /\ Was(i).pc = "cache")
        => IF Fresh(Was(i).symbol)
           THEN /\ After(i).pc = "done"
                /\ After(i).result.kind = "price"
                /\ \E r \in stockPrices :
                      /\ r.symbol = After(i).result.symbol
                      /\ r.symbol = Was(i).symbol
                      /\ r.price = After(i).result.price
           ELSE After(i).pc = "api"

C7_ServedIffFresh ==
    [][/\ (CalledPrice /\ Started.useCache /\ Fresh(Started.symbol))
             => Started.pc = "cache"
       /\ \A i \in 1..MaxBatch : ServedIffFresh(i)]_vars

(* C8: a getStockPrice call that no fresh entry can serve and that the       *)
(* limiter denies fails with the rate-limit error at once: nothing is sent   *)
(* to the quote source and the price cache is left unchanged.                *)
C8_DeniedFailsFast ==
    [][(/\ CalledPrice
        /\ MatchesTicker(Started.symbol)
        /\ ~(Started.useCache /\ Fresh(Started.symbol))
        /\ AtBudget("default"))
          => /\ RateLimited(Started)
             /\ Started.pc = "done"
             /\ calls' = calls
             /\ stockPrices' = stockPrices]_vars

C8_Witness ==
    /\ returned.op = "price"
    /\ RateLimited(returned.subs[1])
    /\ ~Fresh(returned.subs[1].symbol)
    /\ AtBudget("default")
    /\ calls = EmptyBag

(* C9: getStockPrice trims and uppercases the symbol and fails with the      *)
(* invalid-symbol error iff the result does not match ^[A-Z]{1,5}$; it then  *)
(* fails at once, with the limiter's records and the cache untouched and     *)
(* nothing sent to the quote source.                                         *)
Normalized(s) ==
    /\ \A i \in 1..Len(s) : s[i] # "a"
    /\ s # <<>> => s[1] # " " /\ s[Len(s)] # " "

FetchUpserts(i) ==
    (/\ Stepped(i)
     /\ Was(i).pc = "api"
     /\ After(i).result.kind = "price")
        => /\ After(i).result.symbol = Was(i).symbol
           /\ After(i).result.price > 0
           /\ RowsOf(stockPrices', Was(i).symbol)
                 = {[symbol |-> Was(i).symbol,
                     price |-> After(i).result.price,
                     updatedAt |-> now]}

C10_FetchThenHit ==
    [][/\ \A i \in 1..MaxBatch : FetchUpserts(i)
       /\ (CalledPrice /\ Started.useCache /\ Fresh(Started.symbol))
             => ~RateLimited(Started)
       /\ \A i \in 1..MaxBatch :
             (/\ Stepped(i)
              /\ Was(i).pc = "cache"
              /\ Fresh(Was(i).symbol))
                => \E r \in stockPrices :
                      /\ r.symbol = Was(i).symbol
                      /\ After(i).result = Price(r.symbol, r.price)]_vars

\* what the code does keep of C7 and C10: lookups serve an entry iff it is
\* fresh, and a successful fetch upserts the one entry of its symbol
CacheSound ==
    [][\A i \in 1..MaxBatch : ServedIffFresh(i) /\ FetchUpserts(i)]_vars

----------------------------------------------------------------------------
\* the step is the quote source giving `response` to an invocation in flight
Answered(response) ==
    \E request \in BagToSet(calls), i \in 1..MaxBatch :
        ApiResponse(request, i, response)

\* the invocation the quote source answered, after the step
AnsweredCall == After(CHOOSE i \in 1..MaxBatch : Stepped(i))

Failed(call) == call.pc = "done" /\ call.result.kind \in {"thrown", "entry"}

(* C11: upstream failures are classified: a timeout fails with the timeout   *)
(* error, an answer that carries no data for the symbol (HTTP 404, or a      *)
(* chart without result) with the symbol-not-found error, any other          *)
(* transport error with the fetch error, and the three messages differ.      *)
C11_FailuresClassified ==
    [][\A response \in Responses :
          Answered(response) =>
              /\ response.status # "ok" => Failed(AnsweredCall)
              /\ response.status = "timeout"
                    => AnsweredCall.result.error = "Request timeout"
              /\ response.status \in {"404", "nodata"}
                    => AnsweredCall.result.error = "Stock symbol not found"
              /\ response.status = "error"
                    => AnsweredCall.result.error = "Failed to fetch price"]_vars

\* what the code does keep of C11: a timeout and an HTTP 404 have their own
\* errors, and a chart without result fails as any other error does
SourceSound ==
    [][\A response \in Responses :
          Answered(response) =>
              /\ response.status # "ok" => Failed(AnsweredCall)
              /\ response.status = "timeout"
                    => AnsweredCall.result.error = "Request timeout"
              /\ response.status = "404"
                    => AnsweredCall.result.error = "Stock symbol not found"
              /\ response.status \in {"error", "nodata"}
                    => AnsweredCall.result.error = "Failed to fetch price"]_vars

\* the rows of the symbols other than `symbol`
OtherRows(table, symbol) == {r \in table : r.symbol # symbol}

----------------------------------------------------------------------------
\* the request a call has made: handed back at once, or left in flight
Requested == IF calls' = calls THEN returned' ELSE CHOOSE r \in Entered : TRUE

\* an entry of a batch result: the price of the symbol, or its error
WellFormedEntry(call) ==
    /\ call.pc = "done"
    /\ call.result.kind \in {"price", "entry"}
    /\ call.result.symbol = call.symbol
    /\ call.result.kind = "price" <=> call.result.error = ""
    /\ call.result.kind = "price" <=> call.result.price > 0
    /\ ~MatchesTicker(call.symbol)
          => call.result.error = "Invalid stock symbol format"

(* C13: getMultipleStockPrices never fails as a whole: it starts one lookup  *)
(* per input symbol, in input order; a step of one lookup leaves its         *)
(* siblings as they were; and the result has one entry per lookup, the price *)
(* of the symbol or an error entry.                                          *)
C13_BatchNeverFails ==
    [][/\ CalledBatch =>
             \A batch \in Batches(LimiterSymbols), useCache \in BOOLEAN :
                 GetMultipleStockPrices(batch, useCache) =>
                     /\ Len(Requested.subs) = Len(batch)
                     /\ \A i \in 1..Len(batch) :
                           /\ Requested.subs[i].symbol = normalizeSymbol(batch[i])
                           /\ Requested.subs[i].useCache = useCache
       /\ \A i \in 1..MaxBatch :
             (Stepped(i) /\ Before.op = "batch") =>
                 /\ Advanced.op = "batch"
                 /\ DOMAIN Advanced.subs = DOMAIN Before.subs
                 /\ After(i).symbol = Was(i).symbol
                 /\ \A j \in DOMAIN Before.subs \ {i} :
                       Advanced.subs[j] = Before.subs[j]
       /\ returned'.op = "batch" =>
             \A i \in DOMAIN returned'.subs : WellFormedEntry(returned'.subs[i])]_vars

\* a batch has returned the price of one symbol beside the error of another
C13_Witness ==
    /\ returned.op = "batch"
    /\ \E i, j \in DOMAIN returned.subs :
          /\ i < j
          /\ returned.subs[i].result.kind = "entry"
          /\ MatchesTicker(returned.subs[i].symbol)
          /\ returned.subs[j].result.kind = "price"

----------------------------------------------------------------------------
\* a bulk request of three symbols of which the second is malformed, and the
\* request of the other two alone
ThreeSymbols == <<<<"a">>, Malformed, <<"Z">>>>
TwoSymbols == <<<<"a">>, <<"Z">>>>

\* the error entry of a symbol that is not a ticker
InvalidEntry(call) ==
    /\ call.pc = "done"
    /\ call.result.kind = "entry"
    /\ call.result.price = 0
    /\ call.result.error = "Invalid stock symbol format"

\* the bulk request has one result per symbol, the second an error entry
ThreeResults(request) ==
    /\ request.op = "batch"
    /\ Len(request.subs) = 3
    /\ InvalidEntry(request.subs[2])
    /\ ~InvalidEntry(request.subs[1])
    /\ ~InvalidEntry(request.subs[3])

(* C14 as stated: a bulk request of three symbols of which one is malformed  *)
(* gets three independent results, through getMultipleStockPrices and        *)
(* through the prices route alike.                                           *)
C14_ThreeResults ==
    [][\A useCache \in BOOLEAN :
          (\/ GetMultipleStockPrices(ThreeSymbols, useCache)
           \/ GetPrices(ThreeSymbols, useCache)
           \/ PostPrices(ThreeSymbols))
              => ThreeResults(Requested)]_vars

(* C14, amended: getMultipleStockPrices gives a request of three symbols of  *)
(* which one is malformed three results, an InvalidSymbol entry for the      *)
(* malformed symbol, which costs no budget, and for the other two what a     *)
(* request of the two alone gets; the prices route (GET and POST) rejects    *)
(* the whole request with "Invalid stock symbol format" before any lookup:   *)
(* no budget is spent and nothing is put in flight or cached.                *)
C14_MalformedSymbol ==
    [][/\ \A useCache \in BOOLEAN :
             /\ GetMultipleStockPrices(ThreeSymbols, useCache) =>
                   LET alone == startAll(rateLimitStore, TwoSymbols, useCache, now)
                   IN  /\ ThreeResults(Requested)
                       /\ Requested.subs[1] = alone.subs[1]
                       /\ Requested.subs[3] = alone.subs[2]
                       /\ rateLimitStore' = alone.store
             /\ (GetPrices(ThreeSymbols, useCache) \/ PostPrices(ThreeSymbols)) =>
                   /\ returned' = Rejected("Invalid stock symbol format")
                   /\ UNCHANGED <<rateLimitStore, stockPrices, calls>>
       /\ (returned'.op = "batch" /\ Len(returned'.subs) = 3) =>
             /\ ThreeResults(returned')
             /\ WellFormedEntry(returned'.subs[1])
             /\ WellFormedEntry(returned'.subs[3])]_vars

\* the library has returned two prices around the error entry of the
\* malformed symbol
C14_Witness ==
    /\ ThreeResults(returned)
    /\ returned.subs[1].result.kind = "price"
    /\ returned.subs[3].result.kind = "price"

----------------------------------------------------------------------------
\* the lists of more symbols than a bulk request may have
TooMany == {symbols \in BulkLists : Len(symbols) > MAX_SYMBOLS}

\* the request was refused and nothing was looked up
FailedFast ==
    /\ returned'.op = "rejected"
    /\ UNCHANGED <<rateLimitStore, stockPrices, calls>>

(* C15: a batch of more than MAX_SYMBOLS symbols fails fast, through         *)
(* getMultipleStockPrices and through the prices route alike: the request is *)
(* refused, no rate-limit budget is consumed, nothing is sent to the quote   *)
(* source and the cache is neither read nor written.                         *)
C15_TooManySymbols ==
    [][\A symbols \in TooMany, useCache \in BOOLEAN :
          (\/ GetMultipleStockPrices(symbols, useCache)
           \/ GetPrices(symbols, useCache)
           \/ PostPrices(symbols)) => FailedFast]_vars

\* what the code does keep of C15: the prices route refuses a request of more
\* than MAX_SYMBOLS symbols before any lookup
RouteBound ==
    [][\A symbols \in TooMany, useCache \in BOOLEAN :
          (GetPrices(symbols, useCache) \/ PostPrices(symbols))
              => /\ returned' = Rejected("Invalid symbols parameter")
                 /\ FailedFast]_vars

----------------------------------------------------------------------------
\* the call is one of several concurrent lookups of a symbol that is not
\* cached: a lookup of the symbol is in flight and no fresh entry exists
Concurrent(symbol) == InFlightFor(normalizeSymbol(symbol)) /\ ~Fresh(normalizeSymbol(symbol))

\* the count the limiter has for the quote key once one more unit is taken
OneMore ==
    LET window == Record(rateLimitStore, "default")
    IN  IF "default" \in DOMAIN rateLimitStore /\ now <= window.resetTime
        THEN window.count + 1
        ELSE 1

----------------------------------------------------------------------------
\* the card shows its alert as crossed
Crossed(c) == c.statusText = "Target Reached!" /\ c.statusColor \in {"green", "red"}

\* the card shows its alert as not crossed
NotCrossed(c) ==
    c.statusText # "Target Reached!" /\ c.statusColor \notin {"green", "red"}

\* the card was given a resolved price
Resolved(c) == c.currentPrice # Absent /\ c.currentPrice > 0

(* C17: the crossing predicate has a closed boundary: the card of an active  *)
(* alert with target T that is given a resolved price P shows the target as  *)
(* reached iff the condition is ABOVE and P >= T or the condition is BELOW   *)
(* and P <= T, and as not reached otherwise.                                 *)
C17_ClosedBoundary ==
    (card # NoCard /\ card.alert.isActive /\ Resolved(card)) =>
        LET P == card.currentPrice
            T == card.alert.targetPrice
            reached == \/ card.alert.condition = "ABOVE" /\ P >= T
                       \/ card.alert.condition = "BELOW" /\ P <= T
        IN  IF reached THEN Crossed(card) ELSE NotCrossed(card)

\* a card of an active BELOW alert was given a price equal to the target and
\* shows the target as reached
C17_Witness ==
    /\ card.alert.isActive
    /\ card.alert.condition = "BELOW"
    /\ Resolved(card)
    /\ card.currentPrice = card.alert.targetPrice
    /\ Crossed(card)

----------------------------------------------------------------------------
\* the entries of the returned bulk result that stand for a failed lookup
FailedEntries ==
    {i \in DOMAIN returned.subs :
        returned.op = "batch" /\ returned.subs[i].result.kind # "price"}

(* C18: an alert whose price could not be resolved is never shown as         *)
(* crossed: a card that is given no price, or the placeholder price of a     *)
(* failed lookup's entry, shows no reached target whatever the condition and *)
(* the target are; a failed lookup is an entry with price 0 of the bulk      *)
(* result, which stays a result, and the price of such an entry marks no     *)
(* stored alert as crossed.                                                  *)
C18_UnresolvedNotCrossed ==
    /\ (card # NoCard /\ ~Resolved(card)) => NotCrossed(card)
    /\ returned.op = "batch" =>
          \A i \in DOMAIN returned.subs : WellFormedEntry(returned.subs[i])
    /\ \A i \in FailedEntries :
          /\ returned.subs[i].result.kind = "entry"
          /\ returned.subs[i].result.price = 0
          /\ \A alert \in alerts :
                getStatusText(alert, returned.subs[i].result.price)
                    # "Target Reached!"

\* the card of an active BELOW alert was given the placeholder price of its
\* symbol's failed lookup and shows no reached target
C18_Witness ==
    /\ card.alert.isActive
    /\ card.alert.condition = "BELOW"
    /\ card.currentPrice = 0
    /\ NotCrossed(card)
    /\ \E i \in FailedEntries : returned.subs[i].symbol = card.alert.symbol

----------------------------------------------------------------------------
\* the rows of triggered_alerts that refer to the alert
TriggersOf(table, alertId) == {t \in table : t.alertId = alertId}

\* the step is an evaluation cycle that found some alert crossed
Cycled == cycle' # cycle

(* C19: trigger idempotence: every alert has at most one unread              *)
(* TriggeredAlert at any time, and a crossing event recorded for an alert    *)
(* whose previous trigger is still unread is a NoOp: the rows of the alert   *)
(* stay as they were.                                                        *)
C19_OneUnread ==
    [][/\ \A id \in 1..MaxRows : Cardinality(Unread(triggeredAlerts', id)) <= 1
       /\ Cycled =>
             \A id \in cycle'.events :
                 Unread(triggeredAlerts, id) # {}
                     => TriggersOf(triggeredAlerts', id)
                            = TriggersOf(triggeredAlerts, id)]_vars

\* a cycle has found an alert crossed whose trigger of an earlier cycle is
\* still unread, and has recorded nothing for it
C19_Witness ==
    \E id \in cycle.events :
        /\ Cardinality(TriggersOf(triggeredAlerts, id)) = 1
        /\ Unread(triggeredAlerts, id) # {}
        /\ \A t \in TriggersOf(triggeredAlerts, id) : t.id \notin cycle.recorded

\* the alert has triggered before and every trigger of it is marked read
Acknowledged(alertId) ==
    /\ TriggersOf(triggeredAlerts, alertId) # {}
    /\ Unread(triggeredAlerts, alertId) = {}

(* C20: no permanent suppression: once the TriggeredAlert of an alert has    *)
(* been marked read, the next cycle in which the alert is active and its     *)
(* price is resolved and crossing records a new, unread TriggeredAlert of    *)
(* the alert with that price.                                                *)
C20_TriggersAgain ==
    [][\A priceLookup \in PriceLookups :
          Evaluate(priceLookup) =>
              \A a \in alerts :
                  (/\ a.isActive
                   /\ Acknowledged(a.id)
                   /\ priceLookup[a.symbol] # Absent
                   /\ crossed(a, priceLookup[a.symbol]))
                      => \E t \in triggeredAlerts' \ triggeredAlerts :
                            /\ t = TriggeredAlert(t.id, a, priceLookup[a.symbol])
                            /\ t.id \in cycle'.recorded]_vars

\* an alert has a trigger that was marked read and a later, unread one that
\* the last cycle recorded
C20_Witness ==
    \E old, new \in triggeredAlerts :
        /\ old.alertId = new.alertId
        /\ old.isRead
        /\ ~new.isRead
        /\ old.id < new.id
        /\ new.id \in cycle.recorded
        /\ \E a \in alerts : a.id = new.alertId /\ a.isActive

\* the identities of the alerts of a table
Ids(table) == {a.id : a \in table}

\* the step edits stored alerts: the same alerts, with other values
Edited == alerts' # alerts /\ Ids(alerts') = Ids(alerts)

\* the row carries the symbol, target and condition of the alert
Snapshot(t, a) ==
    /\ t.alertId = a.id
    /\ t.symbol = a.symbol
    /\ t.targetPrice = a.targetPrice
    /\ t.condition = a.condition

\* C21: a row of triggered_alerts is inserted with the symbol, target and
\* condition its alert has at that time, and no later edit of the alert
\* (symbol, target, condition or isActive) changes a row that exists: the
\* table is the same after every PUT, and a row that stays keeps its values
C21_Snapshots ==
    [][/\ \A t \in triggeredAlerts' \ triggeredAlerts :
              \E a \in alerts : Snapshot(t, a)
       /\ Edited => triggeredAlerts' = triggeredAlerts
       /\ \A t \in triggeredAlerts, u \in triggeredAlerts' :
              u.id = t.id => u = t]_vars

\* an alert was edited after it triggered: its row has the old target and
\* the old symbol
C21_Witness ==
    \E t \in triggeredAlerts, a \in alerts :
        /\ t.alertId = a.id
        /\ t.targetPrice # a.targetPrice
        /\ t.symbol # a.symbol
        /\ reply.status = 200

\* the identities handed out whose row is gone
Gone == (1..cuid) \ (Ids(alerts) \cup Ids(triggeredAlerts))

\* the alerts the step deletes
Deleted == Ids(alerts) \ Ids(alerts')

\* C22: deleting alerts, one or several at once, removes the rows of
\* triggered_alerts of the deleted alerts and leaves the rows of the other
\* alerts as they are; no row refers to an alert that does not exist
C22_Cascade ==
    [][/\ Deleted # {} =>
              triggeredAlerts' = {t \in triggeredAlerts : t.alertId \notin Deleted}
       /\ \A t \in triggeredAlerts' : t.alertId \in Ids(alerts')]_vars

\* an alert and its row are gone, and the row of another alert is there
C22_Witness ==
    /\ Cardinality(Gone) >= 2
    /\ triggeredAlerts # {}
    /\ alerts # {}
    /\ reply.status = 200

\* the step is a dispatch
Dispatched == dispatch' # dispatch

\* the rows of the token
RowsOfToken(table, token) == {d \in table : d.token = token}

\* the row of the token is there and active
ActiveToken(table, token) ==
    \E d \in RowsOfToken(table, token) : d.isActive

\* the tokens of the dispatch whose result is the outcome
TokensWith(d, outcome) ==
    {d.tokens[i] : i \in {j \in DOMAIN d.tokens :
                              /\ j \in DOMAIN d.answer.results
                              /\ d.answer.results[j] = outcome}}

\* C23: a bulk dispatch to three registered, active tokens of which the
\* gateway reports the second as invalid returns 2, and after it the row of
\* the second token is inactive and the rows of the first and of the third
\* are active
C23_InvalidDeactivated ==
    [][(/\ Dispatched
        /\ dispatch'.op = "bulk"
        /\ Len(dispatch'.tokens) = 3
        /\ \A i \in 1..3 : ActiveToken(deviceTokens, dispatch'.tokens[i])
        /\ dispatch'.answer.results = <<"ok", "invalid", "ok">>)
       => /\ dispatch'.successCount = 2
          /\ ~ActiveToken(deviceTokens', dispatch'.tokens[2])
          /\ ActiveToken(deviceTokens', dispatch'.tokens[1])
          /\ ActiveToken(deviceTokens', dispatch'.tokens[3])]_vars

\* C24: a bulk dispatch the gateway answers result by result does not
\* throw, whatever tokens fail, and returns the number of the results
\* without an error: a token that fails does not stop the tokens after it
C24_PartialFailure ==
    [][(/\ Dispatched
        /\ dispatch'.op = "bulk"
        /\ dispatch'.answer.results # <<>>)
       => /\ ~dispatch'.thrown
          /\ dispatch'.successCount = Cardinality(TokensWith(dispatch', "ok"))]_vars

\* a dispatch to three tokens of which the first fails and the others are
\* delivered to
C24_Witness ==
    /\ dispatch.op = "bulk"
    /\ Len(dispatch.tokens) = 3
    /\ dispatch.answer.results[1] # "ok"
    /\ dispatch.successCount = 2
    /\ ~dispatch.thrown

\* C25: a dispatch, single or bulk, that finds the admin SDK impossible to
\* initialise throws
C25_Misconfigured ==
    [][(Dispatched /\ dispatch'.answer.error = "misconfigured")
       => dispatch'.thrown]_vars

\* the failures of the dispatch that pass: the call was rejected, or the
\* gateway reported these tokens with a transient error
Transient(d) ==
    IF d.answer.error = "unreachable" THEN {d.tokens[i] : i \in DOMAIN d.tokens}
    ELSE TokensWith(d, "transient")

\* C26: a delivery failure that is not an invalid token shows in the result
\* of the dispatch (false for the single token, no count for the token in a
\* bulk) and the rows of the tokens stay as they are, active if they were
C26_TransientKeepsActive ==
    [][(Dispatched /\ Transient(dispatch') # {})
       => /\ deviceTokens' = deviceTokens
          /\ dispatch'.op = "single" => ~dispatch'.ok
          /\ dispatch'.op = "bulk" =>
                dispatch'.successCount
                    <= Len(dispatch'.tokens) - Cardinality(Transient(dispatch'))]_vars

\* a bulk dispatch met a transient failure for an active token, and the
\* token is active after it
C26_Witness ==
    /\ dispatch.op = "bulk"
    /\ \E token \in TokensWith(dispatch, "transient") :
          ActiveToken(deviceTokens, token)
    /\ dispatch.successCount < Len(dispatch.tokens)

\* the step registers the token
Registered(token) ==
    \E userId \in UserIds : RegisterToken(token, userId)

\* C28: no two rows of device_tokens have the same token, and a successful
\* registration leaves the one row of its token active, inserted if there
\* was none and updated if there was one, active or not, with the other
\* rows as they were
C28_Upsert ==
    [][/\ \A d, e \in deviceTokens' : d.token = e.token => d = e
       /\ \A token \in Tokens :
              Registered(token) =>
                  /\ Cardinality(RowsOfToken(deviceTokens', token)) = 1
                  /\ ActiveToken(deviceTokens', token)
                  /\ \A d \in RowsOfToken(deviceTokens, token) :
                         \E e \in deviceTokens' : e.id = d.id /\ e.token = token
                  /\ \A d \in deviceTokens :
                         d.token # token => d \in deviceTokens']_vars

\* a row that was inactive is active after the registration of its token,
\* beside a row that is still inactive
C28_Witness ==
    /\ reply.status = 200
    /\ \E d, e \in deviceTokens :
          /\ d.createdAt < d.updatedAt
          /\ d.isActive
          /\ ~e.isActive

\* the alert has a positive target and a symbol of one to five capitals
ValidAlert(a) == a.targetPrice > 0 /\ MatchesTicker(a.symbol)

\* the request asks for a target that is not positive, or for a symbol
\* that is not one to five capitals once normalised
BadCreate(symbol, targetPrice) ==
    targetPrice <= 0 \/ ~MatchesTicker(normalizeSymbol(symbol))

BadUpdate(updateData) ==
    \/ "targetPrice" \in DOMAIN updateData /\ updateData.targetPrice <= 0
    \/ "symbol" \in DOMAIN updateData
          /\ ~MatchesTicker(normalizeSymbol(updateData.symbol))

Quoted(response) ==
    IF response.regularMarketPrice # 0 THEN response.regularMarketPrice
    ELSE response.previousClose

Alike(a, b) ==
    /\ a.isActive /\ b.isActive
    /\ a.symbol = b.symbol
    /\ a.targetPrice = b.targetPrice
    /\ a.condition = b.condition

\* C30: a POST that finds an active alert with its normalised symbol, its
\* target and its condition is answered 409 and leaves the alerts as they
\* are, and after every step of concurrent POSTs and PUTs no two active
\* alerts have the same symbol, target and condition
C30_UniqueActive ==
    [][/\ \A targetPrice \in Targets, condition \in Conditions :
              (/\ \E a \in alerts :
                      Alike(a, Alert(0, <<"A">>, targetPrice, condition, TRUE))
               /\ PostAlertCheck(<<"a">>, targetPrice, condition))
              => reply'.status = 409 /\ alerts' = alerts
       /\ \A a, b \in alerts' : Alike(a, b) => a = b]_vars

====
